---- MODULE Spec2Model ----
(***************************************************************************)
(* State machine of the App component of src/src/App.tsx: the section /    *)
(* URL synchronisation, the event detail selection, the hero carousel, the *)
(* AnimatedCounter instances of the About section and the contact form.    *)
(*                                                                         *)
(* React scheduling as modelled here.  A user input (click, popstate) is a *)
(* discrete event: its handler, the render it causes and the passive       *)
(* effects of that render are one step.  State updates and navigate()      *)
(* calls made inside passive effects are queued (pendSection, pendPath)    *)
(* and committed by a later Render step.  Render commits everything that   *)
(* is queued (automatic batching), or, when a location update and a        *)
(* section update are both queued, the section update alone (a router      *)
(* that publishes the location inside a transition lets the section        *)
(* update render first).  User inputs are dispatched only when nothing is  *)
(* queued; timers and animation frames fire at any time.  The counters     *)
(* share no state, so the scroll position is taken to bring one group of   *)
(* them into view per mount of the About section (EnterSets).              *)
(*                                                                         *)
(* The contact form.  formRef holds the form exactly while the Contact     *)
(* section is rendered.  A handleSubmit invocation is a record in subs: it *)
(* runs to its first await or return in the Submit step and resumes when   *)
(* the promise of emailjs.sendForm settles or the simulation timeout       *)
(* fires.  The build (which VITE_EMAILJS_* values exist, the hostname) is  *)
(* fixed for a page load and chosen when handleSubmit first reads it.      *)
(*                                                                         *)
(* The page (Next) and the form (FormNext) share only the view: Spec       *)
(* takes the steps of the page with the form untouched, FormSpec the steps *)
(* of the form with the navigation clicks that mount and unmount it.       *)
(***************************************************************************)
EXTENDS Integers, Sequences, FiniteSets, TLC

\* ------------------------------------------------------------------ data

\* nav.map(n => n.name)
navItems == <<"Home", "Highlights", "About", "Contact">>

Sections == {navItems[i] : i \in 1..Len(navItems)}

\* the four routed paths
FourPaths == {"/", "/highlights", "/about", "/contact"}

\* every pathname the browser can present: the routed ones, the alias
\* "/home" and an unknown one
Paths == FourPaths \cup {"/home", "/x"}

\* ids of the entries of the fixed event list
highlightsEvents == <<1, 2, 3, 4>>

EventIds == {highlightsEvents[i] : i \in 1..Len(highlightsEvents)}

\* heroImages = highlightsEvents.map(event => event.image): one per event
heroImages == [i \in 1..Len(highlightsEvents) |-> highlightsEvents[i]]

\* useState<number | null>(null): the falsy "no selection" value
null == 0

\* nothing queued
NoUpdate == "none"

\* ------------------------------------------------------------- bounds

\* history counters saturate here
MaxCalls == 3

\* AnimatedCounter's duration (2000 ms), in frame-clock units
duration == 5

\* the longest gap between two animation frames, in frame-clock units
MaxFrameGap == 6

\* <AnimatedCounter target={20} />, target={100}, target={39}
counterTargets == <<20, 100, 39>>

CounterIds == 1..Len(counterTargets)

\* the counters that scroll into view together: one alone, or the whole row
EnterSets == {{c} : c \in CounterIds} \cup {CounterIds}

\* ------------------------------------------------------ pure helpers

\* the About case returns the Contact path
toPathDup(section) ==
  CASE section = "Home"       -> "/"
    [] section = "Highlights" -> "/highlights"
    [] section = "About"      -> "/contact"
    [] section = "Contact"    -> "/contact"
    [] OTHER                  -> "/"

toPath(section) ==
  CASE section = "Home"       -> "/"
    [] section = "Highlights" -> "/highlights"
    [] section = "About"      -> "/about"
    [] section = "Contact"    -> "/contact"
    [] OTHER                  -> "/"

\* the default branch returns a name that is no section
toSectionBadDefault(p) ==
  CASE p = "/"            -> "Home"
    [] p = "/home"        -> "Home"
    [] p = "/highlights"  -> "Highlights"
    [] p = "/about"       -> "About"
    [] p = "/contact"     -> "Contact"
    [] OTHER              -> "NotFound"

toSection(p) ==
  CASE p = "/"            -> "Home"
    [] p = "/home"        -> "Home"
    [] p = "/highlights"  -> "Highlights"
    [] p = "/about"       -> "About"
    [] p = "/contact"     -> "Contact"
    [] OTHER              -> "Home"

Pow4(x) == x * x * x * x

\* Math.floor((1 - Math.pow(1 - progress, 4)) * target) with
\* progress = Math.min(elapsed / duration, 1)
easedCount(elapsed, target) ==
  LET e == IF elapsed < duration THEN elapsed ELSE duration
  IN  (target * (Pow4(duration) - Pow4(duration - e))) \div Pow4(duration)

Bump(n) == IF n < MaxCalls THEN n + 1 ELSE n

\* --------------------------------------------------- contact form data

\* handleSubmit invocations whose calls and alerts are kept at one time
MaxSubmits == 1

Slots == 1..MaxSubmits

\* what the user can have typed into each controlled field
Emails == {"", "ann@example.org"}

Names == {"", "Ann"}

Phones == {"", "555"}

\* a build and the host it is served from: which VITE_EMAILJS_* values are set
Build(s, t, k, r, h) ==
  [read |-> TRUE, serviceId |-> s, templateId |-> t, publicKey |-> k,
   replyTemplateId |-> r, hostname |-> h]

Builds ==
  { Build(TRUE, TRUE, TRUE, TRUE, "harmonia.example"),
    Build(TRUE, TRUE, TRUE, FALSE, "localhost"),
    Build(FALSE, TRUE, TRUE, TRUE, "harmonia.example"),
    Build(TRUE, TRUE, FALSE, FALSE, "harmonia.example"),
    Build(TRUE, FALSE, TRUE, TRUE, "localhost"),
    Build(FALSE, FALSE, FALSE, FALSE, "127.0.0.1") }

\* the configuration before handleSubmit has read it
Unread == [Build(FALSE, FALSE, FALSE, FALSE, "") EXCEPT !.read = FALSE]

\* a handleSubmit invocation that has not happened
NoSubmission ==
  [phase |-> "idle", email |-> "", sendForm |-> 0, send |-> 0, alerts |-> <<>>,
   resets |-> 0, outcome |-> "none", ack |-> "none"]

\* ------------------------------------------------------------- state

VARIABLES
  activeSection,     \* useState('Home')
  selectedEventId,   \* useState<number | null>(null)
  currentHeroIndex,  \* useState(0)
  userEmail,         \* useState('')
  userName,          \* useState('')
  userPhone,         \* useState('')
  pathname,          \* location.pathname as rendered
  pendSection,       \* queued setActiveSection value, or NoUpdate
  pendPath,          \* navigate() target not yet rendered, or NoUpdate
  mounted,           \* the mount effects have run
  screen,            \* which media query matches; "none" until the hooks' effects are rendered
  counters,          \* the AnimatedCounter instances of the About section
  env,               \* import.meta.env and window.location.hostname, fixed when first read
  subs,              \* the handleSubmit invocations: what each has called and shown
  entry,             \* the document's first history entry when it is no routed path, else NoUpdate
  lastInput,         \* history: the last navigation input and the state it met
  navCalls,          \* history: navigate() calls since lastInput
  effSets,           \* history: setActiveSection calls by the URL effect since lastInput
  lastOp             \* history: the step just taken

\* the contact form's state: the controlled fields, the build and the submissions
formVars == <<userEmail, userName, userPhone, env, subs>>

vars == <<activeSection, selectedEventId, currentHeroIndex, pathname, pendSection,
          pendPath, mounted, screen, counters, entry, lastInput, navCalls, effSets, lastOp,
          formVars>>

Screens == {"mobile", "tablet", "desktop"}

isMobile == screen = "mobile"

isDesktop == screen = "desktop"

Input(kind, arg) == [kind |-> kind, arg |-> arg, path |-> pathname, sec |-> activeSection]

\* no effect, state update or navigation is outstanding
Quiescent ==
  /\ mounted
  /\ pendSection = NoUpdate
  /\ pendPath = NoUpdate
  /\ screen # "none"

\* the URL the browser shows: history.pushState has happened when navigate() returns
browserPath == IF pendPath # NoUpdate THEN pendPath ELSE pathname

\* renderSection for the given state: the detail view wins over the section switch
viewOf(sec, sel) ==
  LET found == {i \in 1..Len(highlightsEvents) : highlightsEvents[i] = sel}
  IN  IF sel # null /\ found # {}
        THEN <<"detail", sel>>
        ELSE IF sec \in {"Home", "Highlights", "About", "Contact"}
               THEN <<"section", sec>>
               ELSE <<"null", 0>>

renderSection == viewOf(activeSection, selectedEventId)

\* ------------------------------------------------- AnimatedCounter

\* no instance: the About section is not rendered
Unmounted ==
  [mounted |-> FALSE, count |-> 0, started |-> FALSE, hasAnimated |-> FALSE,
   raf |-> FALSE, startSet |-> FALSE, elapsed |-> 0, entered |-> FALSE]

\* a new instance: useState(0), useState(false), useRef(false)
Fresh == [Unmounted EXCEPT !.mounted = TRUE]

\* AnimatedCounter is declared inside App, so every render of App makes a new
\* component type: React unmounts the old instances (the effect cleanup cancels
\* the frame request) and mounts new ones.
Remount(sec, sel) ==
  [c \in CounterIds |-> IF viewOf(sec, sel) = <<"section", "About">> THEN Fresh ELSE Unmounted]

\* onViewportEnter, then the effect on [started]
entered(c) ==
  IF ~c.hasAnimated
    THEN [c EXCEPT !.entered = TRUE, !.started = TRUE, !.hasAnimated = TRUE,
                   !.raf = TRUE, !.startSet = FALSE]
    ELSE [c EXCEPT !.entered = TRUE]

\* animate measuring progress from the previous frame instead of the first
animateFromPrevious(c, target, dt) ==
  LET e == IF ~c.startSet THEN 0
           ELSE IF dt < duration THEN dt ELSE duration
  IN  [c EXCEPT !.startSet = TRUE, !.elapsed = e, !.count = easedCount(e, target),
                !.raf = (e < duration)]

\* animate(timestamp), dt after the previous frame
animate(c, target, dt) ==
  LET e == IF ~c.startSet THEN 0
           ELSE IF c.elapsed + dt < duration THEN c.elapsed + dt ELSE duration
  IN  [c EXCEPT !.startSet = TRUE, !.elapsed = e, !.count = easedCount(e, target),
                !.raf = (e < duration)]

\* ----------------------------------------------------------- effects

\* the URL effect with its test inverted
UrlEffectInverted(sec, path) ==
  LET s == toSection(path)
  IN  IF s = sec THEN s ELSE NoUpdate

\* useEffect(..., [location.pathname]): the value it passes to setActiveSection,
\* or NoUpdate.  sec and path are the values of the render the effect closes over.
UrlEffect(sec, path) ==
  LET s == toSection(path)
  IN  IF s # sec THEN s ELSE NoUpdate

\* the section effect reading the section of the previous render
SectionEffectStale(sec, path) ==
  LET p == toPath(activeSection)
  IN  IF path # p THEN p ELSE NoUpdate

\* useEffect(..., [activeSection]): the path it passes to navigate, or NoUpdate
SectionEffect(sec, path) ==
  LET p == toPath(sec)
  IN  IF path # p THEN p ELSE NoUpdate

\* Commit a render of App with the values sec and path and run the passive
\* effects whose dependency changed (all of them when first); keepPath stays
\* queued; n0 and e0 are the history counters before the effects.
Commit(sec, path, first, keepPath, n0, e0) ==
  LET runUrl == first \/ path # pathname
      runSec == first \/ sec # activeSection
      s      == IF runUrl THEN UrlEffect(sec, path) ELSE NoUpdate
      p      == IF runSec THEN SectionEffect(sec, path) ELSE NoUpdate
  IN  /\ activeSection' = sec
      /\ pathname' = path
      /\ pendSection' = s
      /\ pendPath' = IF p # NoUpdate THEN p ELSE keepPath
      /\ effSets' = IF s # NoUpdate THEN Bump(e0) ELSE e0
      /\ navCalls' = IF p # NoUpdate THEN Bump(n0) ELSE n0

\* ------------------------------------------------------ handleSubmit

\* <form ref={formRef}>: the ref holds the form while the Contact section is rendered
formMounted(sec, sel) == viewOf(sec, sel) = <<"section", "Contact">>

\* the config guard testing serviceId alone
configMissingServiceOnly(e) == ~e.serviceId

\* if (!serviceId || !templateId || !publicKey)
configMissing(e) == ~e.serviceId \/ ~e.templateId \/ ~e.publicKey

\* the hostname test without 127.0.0.1
isLocalhostNameOnly(h) == h = "localhost"

\* window.location.hostname === "localhost" || ... === "127.0.0.1"
isLocalhost(h) == h = "localhost" \/ h = "127.0.0.1"

\* handleSubmit up to its first await or return, for the build e and the
\* userEmail of the render whose handler runs
handleSubmit(e, email) ==
  IF configMissing(e)
    THEN IF isLocalhost(e.hostname)
           THEN [NoSubmission EXCEPT !.phase = "timer", !.email = email]
           ELSE [NoSubmission EXCEPT !.phase = "done", !.email = email,
                                     !.alerts = <<"not configured">>]
    ELSE [NoSubmission EXCEPT !.phase = "sending", !.email = email, !.sendForm = 1]

\* the timeout callback: alert("Simulated: Message sent!"); formRef.current?.reset()
simulated(r, hasForm) ==
  [r EXCEPT !.phase = "done", !.alerts = Append(@, "simulated"),
            !.resets = IF hasForm THEN @ + 1 ELSE @]

\* the catch block
failed(r) == [r EXCEPT !.phase = "done", !.alerts = Append(@, "failure")]

\* a catch block that calls sendForm once more
afterRejectRetry(r) ==
  [r EXCEPT !.phase = "sending", !.outcome = "rejected", !.sendForm = @ + 1]

\* sendForm rejected: the await throws into the catch block
afterReject(r) == failed([r EXCEPT !.outcome = "rejected"])

\* sendForm resolved: the rest of the try block.  formRef.current.reset() has
\* no optional chaining: with the form unmounted it throws a TypeError, which
\* the catch block handles like a failed send.
afterResolve(r, e, hasForm) ==
  LET shown == [r EXCEPT !.outcome = "resolved", !.alerts = Append(@, "success")]
  IN  IF ~hasForm
        THEN failed(shown)
        ELSE IF e.replyTemplateId /\ r.email # ""
               THEN [shown EXCEPT !.phase = "done", !.resets = @ + 1,
                                  !.send = @ + 1, !.ack = "pending"]
               ELSE [shown EXCEPT !.phase = "done", !.resets = @ + 1]

\* a slot is free once its invocation and its acknowledgement have ended
free(r) == r.phase \in {"idle", "done"} /\ r.ack # "pending"

\* ----------------------------------------------------------- actions

Init ==
  /\ activeSection = "Home"
  /\ selectedEventId = null
  /\ currentHeroIndex = 0
  /\ pathname \in Paths
  /\ pendSection = NoUpdate
  /\ pendPath = NoUpdate
  /\ mounted = FALSE
  /\ screen = "none"
  /\ counters = [c \in CounterIds |-> Unmounted]
  /\ entry = IF pathname \in FourPaths THEN NoUpdate ELSE pathname
  /\ lastInput = [kind |-> "mount", arg |-> pathname, path |-> pathname, sec |-> "Home"]
  /\ navCalls = 0
  /\ effSets = 0
  /\ lastOp = "init"
  /\ userEmail = "" /\ userName = "" /\ userPhone = ""
  /\ env = Unread
  /\ subs = [s \in Slots |-> NoSubmission]

\* passive effects of the first commit: both sync effects, the carousel
\* interval and the media-query listeners
MountEffects ==
  /\ ~mounted
  /\ mounted' = TRUE
  /\ Commit(activeSection, pathname, TRUE, NoUpdate, 0, 0)
  /\ lastOp' = "mount"
  /\ UNCHANGED <<formVars, entry, selectedEventId, currentHeroIndex, screen, counters, lastInput>>

\* a render of the queued updates, followed by its passive effects
Render ==
  /\ mounted
  /\ pendSection # NoUpdate \/ pendPath # NoUpdate \/ screen = "none"
  /\ \E batchAll \in BOOLEAN :
       /\ ~batchAll => pendSection # NoUpdate /\ pendPath # NoUpdate
       /\ LET sec  == IF pendSection # NoUpdate THEN pendSection ELSE activeSection
              path == IF batchAll /\ pendPath # NoUpdate THEN pendPath ELSE pathname
              keep == IF batchAll THEN NoUpdate ELSE pendPath
          IN  /\ Commit(sec, path, FALSE, keep, navCalls, effSets)
              /\ counters' = Remount(sec, selectedEventId)
  /\ screen' \in (IF screen = "none" THEN Screens ELSE {screen})
  /\ lastOp' = "render"
  /\ UNCHANGED <<formVars, entry, selectedEventId, currentHeroIndex, mounted, lastInput>>

\* a navigation click that leaves the selected event alone
NavClickKeepsEvent(name) ==
  /\ Quiescent
  /\ lastInput' = Input("click", name)
  /\ Commit(name, pathname, FALSE, NoUpdate, 0, 0)
  /\ counters' = IF name # activeSection
                   THEN Remount(name, selectedEventId) ELSE counters
  /\ lastOp' = "navClick"
  /\ UNCHANGED <<formVars, entry, selectedEventId, currentHeroIndex, mounted, screen>>

\* onClick={() => { setActiveSection(name); setSelectedEventId(null); }}
NavClick(name) ==
  /\ Quiescent
  /\ selectedEventId' = null
  /\ lastInput' = Input("click", name)
  /\ Commit(name, pathname, FALSE, NoUpdate, 0, 0)
  /\ counters' = IF name # activeSection \/ selectedEventId # null
                   THEN Remount(name, null) ELSE counters
  /\ lastOp' = "navClick"
  /\ UNCHANGED <<formVars, entry, currentHeroIndex, mounted, screen>>

\* the Home section's button: onClick={() => setActiveSection('About')}
AboutUsClick ==
  /\ Quiescent
  /\ renderSection = <<"section", "Home">>
  /\ ~isMobile
  /\ lastInput' = Input("aboutUs", "About")
  /\ Commit("About", pathname, FALSE, NoUpdate, 0, 0)
  /\ counters' = Remount("About", selectedEventId)
  /\ lastOp' = "aboutUs"
  /\ UNCHANGED <<formVars, entry, selectedEventId, currentHeroIndex, mounted, screen>>

\* back / forward: the router publishes the new location.  The entries of the
\* session history are the document's first entry and the paths navigate()
\* has pushed, which are routed paths.
UrlChange(p) ==
  /\ Quiescent
  /\ p # pathname
  /\ p \in FourPaths \cup {entry}
  /\ lastInput' = Input("url", p)
  /\ Commit(activeSection, p, FALSE, NoUpdate, 0, 0)
  /\ counters' = Remount(activeSection, selectedEventId)
  /\ lastOp' = "url"
  /\ UNCHANGED <<formVars, entry, selectedEventId, currentHeroIndex, mounted, screen>>

\* selects the id after the one clicked
SelectEventOffByOne(i) ==
  /\ Quiescent
  /\ renderSection = <<"section", "Highlights">>
  /\ selectedEventId' = highlightsEvents[i] + 1
  /\ counters' = Remount(activeSection, selectedEventId')
  /\ lastOp' = "select"
  /\ UNCHANGED <<formVars, entry, activeSection, currentHeroIndex, pathname, pendSection, pendPath,
                 mounted, screen, lastInput, navCalls, effSets>>

\* Click to Explore: onClick={() => setSelectedEventId(event.id)}
SelectEvent(i) ==
  /\ Quiescent
  /\ renderSection = <<"section", "Highlights">>
  /\ selectedEventId' = highlightsEvents[i]
  /\ counters' = Remount(activeSection, selectedEventId')
  /\ lastOp' = "select"
  /\ UNCHANGED <<formVars, entry, activeSection, currentHeroIndex, pathname, pendSection, pendPath,
                 mounted, screen, lastInput, navCalls, effSets>>

\* the detail view's back button: onClick={() => setSelectedEventId(null)}
ClearEvent ==
  /\ Quiescent
  /\ renderSection[1] = "detail"
  /\ selectedEventId' = null
  /\ counters' = Remount(activeSection, null)
  /\ lastOp' = "clear"
  /\ UNCHANGED <<formVars, entry, activeSection, currentHeroIndex, pathname, pendSection, pendPath,
                 mounted, screen, lastInput, navCalls, effSets>>

\* a hero dot: onClick={() => setCurrentHeroIndex(index)}
HeroDot(index) ==
  /\ Quiescent
  /\ renderSection = <<"section", "Home">>
  /\ Len(heroImages) > 1
  /\ currentHeroIndex' = index
  /\ lastOp' = "dot"
  /\ UNCHANGED <<formVars, entry, activeSection, selectedEventId, pathname, pendSection, pendPath,
                 mounted, screen, counters, lastInput, navCalls, effSets>>

\* the interval callback without the modulo
TickNoWrap ==
  /\ mounted
  /\ Len(heroImages) # 0
  /\ currentHeroIndex' = currentHeroIndex + 1
  /\ counters' = Remount(activeSection, selectedEventId)
  /\ lastOp' = "tick"
  /\ UNCHANGED <<formVars, entry, activeSection, selectedEventId, pathname, pendSection, pendPath,
                 mounted, screen, lastInput, navCalls, effSets>>

\* the carousel interval: setCurrentHeroIndex((prev) => (prev + 1) % heroImages.length)
Tick ==
  /\ mounted
  /\ Len(heroImages) # 0
  /\ currentHeroIndex' = (currentHeroIndex + 1) % Len(heroImages)
  /\ counters' = IF currentHeroIndex' # currentHeroIndex
                   THEN Remount(activeSection, selectedEventId) ELSE counters
  /\ lastOp' = "tick"
  /\ UNCHANGED <<formVars, entry, activeSection, selectedEventId, pathname, pendSection, pendPath,
                 mounted, screen, lastInput, navCalls, effSets>>

\* a media query changes its match (window resize): setMatches(mq.matches)
MediaChange(s) ==
  /\ mounted
  /\ screen # "none"
  /\ s # screen
  /\ screen' = s
  /\ counters' = Remount(activeSection, selectedEventId)
  /\ lastOp' = "media"
  /\ UNCHANGED <<formVars, entry, activeSection, selectedEventId, currentHeroIndex, pathname,
                 pendSection, pendPath, mounted, lastInput, navCalls, effSets>>

\* counters scroll into view (viewport={{ once: true }}): onViewportEnter of
\* each.  One group of counters becomes visible per mount of the section.
ViewportEnter(S) ==
  /\ \A c \in CounterIds : counters[c].mounted /\ ~counters[c].entered
  /\ counters' = [c \in CounterIds |->
                    IF c \in S THEN entered(counters[c]) ELSE counters[c]]
  /\ lastOp' = "enter"
  /\ UNCHANGED <<formVars, entry, activeSection, selectedEventId, currentHeroIndex, pathname,
                 pendSection, pendPath, mounted, screen, lastInput, navCalls, effSets>>

\* an animation frame: the browser calls every requested animate callback
Frame(dt) ==
  /\ \E c \in CounterIds : counters[c].raf
  /\ counters' = [c \in CounterIds |->
                    IF counters[c].raf THEN animate(counters[c], counterTargets[c], dt)
                    ELSE counters[c]]
  /\ lastOp' = "frame"
  /\ UNCHANGED <<formVars, entry, activeSection, selectedEventId, currentHeroIndex, pathname,
                 pendSection, pendPath, mounted, screen, lastInput, navCalls, effSets>>

\* typing into a controlled field: onChange={(e) => setUserEmail(e.target.value)}
EditEmail(v) ==
  /\ Quiescent
  /\ formMounted(activeSection, selectedEventId)
  /\ v # userEmail
  /\ userEmail' = v
  /\ counters' = Remount(activeSection, selectedEventId)
  /\ lastOp' = "edit"
  /\ UNCHANGED <<userName, userPhone, env, subs, entry, activeSection, selectedEventId,
                 currentHeroIndex, pathname, pendSection, pendPath, mounted, screen,
                 lastInput, navCalls, effSets>>

EditName(v) ==
  /\ Quiescent
  /\ formMounted(activeSection, selectedEventId)
  /\ v # userName
  /\ userName' = v
  /\ counters' = Remount(activeSection, selectedEventId)
  /\ lastOp' = "edit"
  /\ UNCHANGED <<userEmail, userPhone, env, subs, entry, activeSection, selectedEventId,
                 currentHeroIndex, pathname, pendSection, pendPath, mounted, screen,
                 lastInput, navCalls, effSets>>

EditPhone(v) ==
  /\ Quiescent
  /\ formMounted(activeSection, selectedEventId)
  /\ v # userPhone
  /\ userPhone' = v
  /\ counters' = Remount(activeSection, selectedEventId)
  /\ lastOp' = "edit"
  /\ UNCHANGED <<userEmail, userName, env, subs, entry, activeSection, selectedEventId,
                 currentHeroIndex, pathname, pendSection, pendPath, mounted, screen,
                 lastInput, navCalls, effSets>>

\* the form's submit event: handleSubmit up to its first await or return.  The
\* build is fixed for the page; it is chosen when handleSubmit first reads it.
Submit(s) ==
  /\ Quiescent
  /\ formMounted(activeSection, selectedEventId)
  /\ free(subs[s])
  /\ \A t \in Slots : t < s => ~free(subs[t])
  /\ env' \in (IF env.read THEN {env} ELSE Builds)
  /\ subs' = [subs EXCEPT ![s] = handleSubmit(env', userEmail)]
  /\ lastOp' = "submit"
  /\ UNCHANGED <<userEmail, userName, userPhone, entry, activeSection, selectedEventId,
                 currentHeroIndex, pathname, pendSection, pendPath, mounted, screen,
                 counters, lastInput, navCalls, effSets>>

\* the 700 ms timeout of the simulation path fires
SimTimeout(s) ==
  /\ subs[s].phase = "timer"
  /\ subs' = [subs EXCEPT ![s] = simulated(@, formMounted(activeSection, selectedEventId))]
  /\ lastOp' = "timeout"
  /\ UNCHANGED <<userEmail, userName, userPhone, env, entry, activeSection,
                 selectedEventId, currentHeroIndex, pathname, pendSection, pendPath,
                 mounted, screen, counters, lastInput, navCalls, effSets>>

\* a success path that also clears the controlled fields
SendFormSettlesClearsFields(s, ok) ==
  /\ subs[s].phase = "sending"
  /\ subs' = [subs EXCEPT ![s] =
                IF ok THEN afterResolve(@, env, formMounted(activeSection, selectedEventId))
                      ELSE afterReject(@)]
  /\ IF ok /\ formMounted(activeSection, selectedEventId)
       THEN userEmail' = "" /\ userName' = "" /\ userPhone' = ""
       ELSE UNCHANGED <<userEmail, userName, userPhone>>
  /\ lastOp' = "settle"
  /\ UNCHANGED <<env, entry, activeSection,
                 selectedEventId, currentHeroIndex, pathname, pendSection, pendPath,
                 mounted, screen, counters, lastInput, navCalls, effSets>>

\* the promise of emailjs.sendForm settles and handleSubmit resumes
SendFormSettles(s, ok) ==
  /\ subs[s].phase = "sending"
  /\ subs' = [subs EXCEPT ![s] =
                IF ok THEN afterResolve(@, env, formMounted(activeSection, selectedEventId))
                      ELSE afterReject(@)]
  /\ lastOp' = "settle"
  /\ UNCHANGED <<userEmail, userName, userPhone, env, entry, activeSection,
                 selectedEventId, currentHeroIndex, pathname, pendSection, pendPath,
                 mounted, screen, counters, lastInput, navCalls, effSets>>

\* a .catch that tells the visitor the auto-reply failed
SendSettlesAlertsFailure(s, ok) ==
  /\ subs[s].ack = "pending"
  /\ subs' = [subs EXCEPT ![s] =
                IF ok THEN [@ EXCEPT !.ack = "resolved"]
                      ELSE [@ EXCEPT !.ack = "rejected", !.alerts = Append(@, "failure")]]
  /\ lastOp' = "ack"
  /\ UNCHANGED <<userEmail, userName, userPhone, env, entry, activeSection,
                 selectedEventId, currentHeroIndex, pathname, pendSection, pendPath,
                 mounted, screen, counters, lastInput, navCalls, effSets>>

\* a success handler that returns the visitor to the Home section
SendSettlesGoesHome(s, ok) ==
  /\ subs[s].ack = "pending"
  /\ subs' = [subs EXCEPT ![s].ack = IF ok THEN "resolved" ELSE "rejected"]
  /\ activeSection' = "Home"
  /\ lastOp' = "ack"
  /\ UNCHANGED <<userEmail, userName, userPhone, env, entry,
                 selectedEventId, currentHeroIndex, pathname, pendSection, pendPath,
                 mounted, screen, counters, lastInput, navCalls, effSets>>

\* the promise of emailjs.send settles: .then logs, .catch warns
SendSettles(s, ok) ==
  /\ subs[s].ack = "pending"
  /\ subs' = [subs EXCEPT ![s].ack = IF ok THEN "resolved" ELSE "rejected"]
  /\ lastOp' = "ack"
  /\ UNCHANGED <<userEmail, userName, userPhone, env, entry, activeSection,
                 selectedEventId, currentHeroIndex, pathname, pendSection, pendPath,
                 mounted, screen, counters, lastInput, navCalls, effSets>>

Next ==
  \/ MountEffects
  \/ Render
  \/ \E name \in Sections : NavClick(name)
  \/ AboutUsClick
  \/ \E p \in Paths : UrlChange(p)
  \/ \E i \in 1..Len(highlightsEvents) : SelectEvent(i)
  \/ ClearEvent
  \/ \E index \in 0..(Len(heroImages) - 1) : HeroDot(index)
  \/ Tick
  \/ \E s \in Screens : MediaChange(s)
  \/ \E S \in EnterSets : ViewportEnter(S)
  \/ \E dt \in 1..MaxFrameGap : Frame(dt)

Spec == Init /\ [][Next]_vars

\* The contact form with the navigation that mounts and unmounts it.  The
\* handlers of the form write none of the variables of Next and read only the
\* view; the steps of Next left out here write none of the form's variables.
FormNext ==
  \/ MountEffects
  \/ Render
  \/ \E name \in Sections : NavClick(name)
  \/ \E v \in Emails : EditEmail(v)
  \/ \E v \in Names : EditName(v)
  \/ \E v \in Phones : EditPhone(v)
  \/ \E s \in Slots : Submit(s)
  \/ \E s \in Slots : SimTimeout(s)
  \/ \E s \in Slots, ok \in BOOLEAN : SendFormSettles(s, ok)
  \/ \E s \in Slots, ok \in BOOLEAN : SendSettles(s, ok)

FormSpec == Init /\ [][FormNext]_vars

\* Steps enough to reach a state in which each step of the model can be
\* taken: a detail view open, a counter animating, a submission in flight or
\* waiting for its timeout, an acknowledgement pending.
FrameNext ==
  \/ MountEffects
  \/ Render
  \/ \E name \in Sections : NavClick(name)
  \/ AboutUsClick
  \/ \E i \in 1..Len(highlightsEvents) : SelectEvent(i)
  \/ \E S \in EnterSets : ViewportEnter(S)
  \/ \E v \in Emails : EditEmail(v)
  \/ \E s \in Slots : Submit(s)
  \/ \E s \in Slots : SimTimeout(s)
  \/ \E s \in Slots, ok \in BOOLEAN : SendFormSettles(s, ok)
  \/ \E s \in Slots, ok \in BOOLEAN : SendSettles(s, ok)

FrameSpec == Init /\ [][FrameNext]_vars

\* React runs the effects and renders it has scheduled, the interval keeps
\* firing and a requested animation frame is delivered.  Nothing obliges the
\* user to click, navigate, resize or scroll.
FairSpec ==
  /\ Spec
  /\ WF_vars(MountEffects)
  /\ WF_vars(Render)
  /\ WF_vars(Tick)
  /\ WF_vars(\E dt \in 1..MaxFrameGap : Frame(dt))

\* ------------------------------------------------------------ claims

\* the section each routed path is named after, and the path of each section
sectionNamed(p) ==
  CASE p = "/" -> "Home" [] p = "/highlights" -> "Highlights"
    [] p = "/about" -> "About" [] p = "/contact" -> "Contact"

pathNamed(s) ==
  CASE s = "Home" -> "/" [] s = "Highlights" -> "/highlights"
    [] s = "About" -> "/about" [] s = "Contact" -> "/contact"

\* C4: toPath and toSection are mutually inverse on the four sections and the
\* four paths, and distinct sections map to distinct paths; in particular the
\* round trips return the section and the routed path of every reachable state.
C4_InverseMaps ==
  /\ \A s \in {"Home", "Highlights", "About", "Contact"} : toSection(toPath(s)) = s
  /\ \A p \in {"/", "/highlights", "/about", "/contact"} : toPath(toSection(p)) = p
  /\ \A s, t \in {"Home", "Highlights", "About", "Contact"} :
        s # t => toPath(s) # toPath(t)
  /\ toSection(toPath(activeSection)) = activeSection
  /\ pathname \in FourPaths => toPath(toSection(pathname)) = pathname

\* C4 witness: a click on Contact has been carried to the URL by toPath and the
\* URL effect has mapped it back without changing the section
C4_Witness ==
  /\ Quiescent
  /\ lastInput.kind = "click" /\ lastInput.arg = "Contact" /\ lastInput.sec = "About"
  /\ activeSection = "Contact" /\ pathname = "/contact"
  /\ navCalls = 1 /\ effSets = 0

\* C5: in every reachable state activeSection is one of the four names Home,
\* Highlights, About, Contact, so renderSection never takes its default branch.
C5_ActiveSectionKnown ==
  /\ activeSection \in {"Home", "Highlights", "About", "Contact"}
  /\ pendSection \in {"Home", "Highlights", "About", "Contact", NoUpdate}
  /\ renderSection[1] # "null"

\* C5 witness: the browser went to an unknown path while Contact was shown and
\* the URL effect's default branch chose the section
C5_Witness ==
  /\ lastInput.kind = "url" /\ lastInput.arg = "/x" /\ lastInput.sec = "Contact"
  /\ lastOp = "render"
  /\ activeSection = "Home"

\* C6: in every reachable state selectedEventId is null or the id of an entry
\* of highlightsEvents (1..4), so the lookup of a non-null id finds its event.
C6_SelectedEventValid ==
  /\ selectedEventId \in {null, 1, 2, 3, 4}
  /\ selectedEventId # null => renderSection = <<"detail", selectedEventId>>

\* C6 witness: the last event of the list has been selected and is shown
C6_Witness ==
  /\ lastOp = "select"
  /\ selectedEventId = 4
  /\ renderSection = <<"detail", 4>>

\* C8: currentHeroIndex always lies in 0 .. heroImages.length - 1, and every
\* interval tick moves it from i to i + 1, wrapping from the last index to 0.
C8_HeroIndex ==
  /\ [](currentHeroIndex \in 0..(Len(heroImages) - 1))
  /\ [][lastOp' = "tick" =>
          currentHeroIndex' = IF currentHeroIndex = Len(heroImages) - 1 THEN 0
                              ELSE currentHeroIndex + 1]_vars

\* C8 witness: a tick has wrapped the index round to 0
C8_Witness ==
  /\ lastOp = "tick"
  /\ currentHeroIndex = 0

\* C1: whenever the browser location changes to one of the four routed paths,
\* the system reaches a state with nothing pending in which activeSection is
\* the section named by that path and the URL is still that path; and every
\* state with nothing pending that follows such a change, before the next
\* navigation input, has that section and that path.
C1_UrlToSection ==
  /\ [](\A p \in FourPaths :
          (Quiescent /\ lastInput.kind = "url" /\ lastInput.arg = p)
            => (activeSection = sectionNamed(p) /\ pathname = p /\ browserPath = p))
  /\ \A p \in FourPaths :
        (lastInput.kind = "url" /\ lastInput.arg = p)
          ~> (Quiescent /\ lastInput.kind = "url" /\ lastInput.arg = p
                /\ activeSection = sectionNamed(p) /\ pathname = p)

\* C1 witness: back/forward from Contact to /about has settled on About, the
\* URL effect having set the section once
C1_Witness ==
  /\ Quiescent
  /\ lastInput.kind = "url" /\ lastInput.arg = "/about" /\ lastInput.sec = "Contact"
  /\ activeSection = "About" /\ pathname = "/about"
  /\ effSets = 1 /\ navCalls = 0

\* what C2 says of a state with nothing pending after a click on section S
C2_Settled(mustMatch) ==
  LET S == lastInput.arg
  IN  /\ activeSection = S
      /\ effSets = 0
      /\ IF mustMatch \/ lastInput.sec # S
           THEN /\ pathname = pathNamed(S)
                /\ navCalls = IF lastInput.path # pathNamed(S) THEN 1 ELSE 0
           ELSE /\ pathname = lastInput.path
                /\ navCalls = 0

\* C2 as stated: after a click on the navigation button of section S the system
\* settles with activeSection = S and pathname = toPath(S), with exactly one
\* navigate call when the pathname differed and none when it matched, and the
\* URL effect does not set activeSection again.
C2_Original ==
  (Quiescent /\ lastInput.kind = "click") => C2_Settled(TRUE)

\* C2 amended: after a click on the navigation button of section S the system
\* reaches a state with nothing pending in which activeSection = S and the URL
\* effect has not set activeSection again; when S was not already the active
\* section, pathname = toPath(S) and exactly one navigate call was issued if
\* the pathname differed (none if it matched); when S was already the active
\* section, no navigate call is issued and the pathname stays what it was.
C2_SectionToUrl ==
  /\ []((Quiescent /\ lastInput.kind = "click") => C2_Settled(FALSE))
  /\ \A S \in {"Home", "Highlights", "About", "Contact"} :
        (lastInput.kind = "click" /\ lastInput.arg = S)
          ~> (Quiescent /\ lastInput.kind = "click" /\ lastInput.arg = S
                /\ C2_Settled(FALSE))

\* C2 witness: a click on About from Home at "/" has settled on /about after
\* one navigate call
C2_Witness ==
  /\ Quiescent
  /\ lastInput = [kind |-> "click", arg |-> "About", path |-> "/", sec |-> "Home"]
  /\ activeSection = "About" /\ pathname = "/about"
  /\ navCalls = 1 /\ effSets = 0

\* C3 as stated: mounted at /highlights, /about or /contact, the app eventually
\* has nothing pending with activeSection the section of that path and the
\* pathname still that path; whenever it has nothing pending before the first
\* navigation input, it is in that state.
C3_DeepLink ==
  /\ \A p \in {"/highlights", "/about", "/contact"} :
        (lastInput.kind = "mount" /\ lastInput.arg = p)
          ~> (Quiescent /\ activeSection = sectionNamed(p) /\ pathname = p)
  /\ [](\A p \in {"/highlights", "/about", "/contact"} :
          (Quiescent /\ lastInput.kind = "mount" /\ lastInput.arg = p)
            => (activeSection = sectionNamed(p) /\ pathname = p))

\* C7 as stated: selecting an event of the list shows that event's detail view,
\* and clearing the selection shows the Highlights list, in every state in
\* which it can be cleared.
C7_SelectAndClear ==
  /\ [][lastOp' = "select" => renderSection' = <<"detail", selectedEventId'>>]_vars
  /\ [][lastOp' = "clear" => renderSection' = <<"section", "Highlights">>]_vars

\* the About section, and with it the counters, is on screen
CountersShown == renderSection = <<"section", "About">>

\* C9 as stated: a counter that has started eventually shows exactly its target
\* with no frame requested, as long as the About section stays on screen.
C9_CounterReachesTarget ==
  \A c \in CounterIds :
    counters[c].started
      ~> ((counters[c].count = counterTargets[c] /\ ~counters[c].raf) \/ ~CountersShown)

\* C10 as stated: every animation frame sets a count strictly greater than the
\* count before it, the first frame included.
C10_StrictlyIncreasing ==
  [][\A c \in CounterIds :
       (lastOp' = "frame" /\ counters[c].raf)
         => counters'[c].count > counters[c].count]_vars

\* C10 amended: every animation frame sets a count greater than or equal to the
\* count before it and at most the target; the first frame sets 0 again, and
\* the frame that ends the animation sets exactly the target.
C10_NonDecreasing ==
  [][\A c \in CounterIds :
       (lastOp' = "frame" /\ counters[c].raf)
         => /\ counters'[c].count >= counters[c].count
            /\ counters'[c].count <= counterTargets[c]
            /\ ~counters[c].startSet => counters'[c].count = 0
            /\ ~counters'[c].raf => counters'[c].count = counterTargets[c]]_vars

\* C10 witness: a frame in the middle of an animation has raised the count
C10_Witness ==
  \E c \in CounterIds :
    /\ lastOp = "frame"
    /\ counters[c].raf /\ counters[c].startSet
    /\ counters[c].elapsed > 1
    /\ counters[c].count > 0 /\ counters[c].count < counterTargets[c]

\* C11 as stated: while the About section stays displayed, a counter that has
\* started counting stays started, its count is not put back to 0 and its
\* count-up does not begin again, whatever step is taken (a carousel tick and a
\* media-query change included).
C11_StartedOnce ==
  [][\A c \in CounterIds :
       (counters[c].started /\ CountersShown /\ CountersShown')
         => /\ counters'[c].started /\ counters'[c].hasAnimated
            /\ counters[c].count > 0 => counters'[c].count > 0
            /\ counters[c].startSet => counters'[c].startSet]_vars

\* a handleSubmit invocation has happened in slot s
submitted(s) == subs[s].phase # "idle"

\* the provider configuration is incomplete
anyIdAbsent == env.read /\ (~env.serviceId \/ ~env.templateId \/ ~env.publicKey)

\* the page is served from a development host
onLocalHost == env.hostname \in {"localhost", "127.0.0.1"}

\* C12: a submission made when serviceId, templateId or publicKey is absent and
\* the hostname is neither localhost nor 127.0.0.1 has shown the alert "Email
\* service is not configured..." and nothing else, has called neither
\* emailjs.sendForm nor emailjs.send and has not reset the form.
C12_NotConfigured ==
  \A s \in Slots :
    (submitted(s) /\ anyIdAbsent /\ ~onLocalHost)
      => /\ subs[s].alerts = <<"not configured">>
         /\ subs[s].sendForm = 0 /\ subs[s].send = 0
         /\ subs[s].resets = 0
         /\ subs[s].phase = "done" /\ subs[s].ack = "none"

\* C12 witness: the form was submitted on a public host by a build that lacks
\* only the public key
C12_Witness ==
  /\ lastOp = "submit"
  /\ env.serviceId /\ env.templateId /\ ~env.publicKey
  /\ env.hostname = "harmonia.example"
  /\ subs[1].alerts = <<"not configured">>

\* C13: a submission made when the configuration is absent and the hostname is
\* localhost or 127.0.0.1 makes no network call and never shows the
\* configuration alert; until the timeout fires it has shown nothing, and the
\* timeout shows exactly one "Simulated: Message sent!" alert and resets the
\* form exactly when the form is mounted at that moment.
C13_Simulated ==
  /\ [](\A s \in Slots :
          (submitted(s) /\ anyIdAbsent /\ onLocalHost)
            => /\ subs[s].sendForm = 0 /\ subs[s].send = 0 /\ subs[s].ack = "none"
               /\ subs[s].phase \in {"timer", "done"}
               /\ subs[s].phase = "timer" => (subs[s].alerts = <<>> /\ subs[s].resets = 0)
               /\ subs[s].phase = "done" => subs[s].alerts = <<"simulated">>)
  /\ [][\A s \in Slots :
          (lastOp' = "timeout" /\ subs'[s] # subs[s])
            => /\ subs[s].phase = "timer" /\ subs'[s].phase = "done"
               /\ subs'[s].resets =
                    IF renderSection = <<"section", "Contact">> THEN 1 ELSE 0]_vars

\* C13 witness: on 127.0.0.1 the timeout has fired with the form still mounted
C13_Witness ==
  /\ lastOp = "timeout"
  /\ env.hostname = "127.0.0.1"
  /\ renderSection = <<"section", "Contact">>
  /\ subs[1].alerts = <<"simulated">> /\ subs[1].resets = 1

\* the configuration is complete
allIdsPresent == env.read /\ env.serviceId /\ env.templateId /\ env.publicKey

\* C14 as stated: a submission made with the configuration present shows no
\* alert while sendForm is in flight and, once handleSubmit has ended, exactly
\* one: the success alert if sendForm resolved, the failure alert if it rejected.
C14_OneOutcomeAlert ==
  \A s \in Slots :
    (submitted(s) /\ allIdsPresent)
      => /\ subs[s].phase \in {"sending", "done"}
         /\ subs[s].phase = "sending" => subs[s].alerts = <<>>
         /\ (subs[s].phase = "done" /\ subs[s].outcome = "resolved")
              => subs[s].alerts = <<"success">>
         /\ (subs[s].phase = "done" /\ subs[s].outcome = "rejected")
              => subs[s].alerts = <<"failure">>

\* C15: a submission calls emailjs.sendForm at most once; when the call has
\* rejected the submission has ended with one sendForm call, no send call and
\* no acknowledgement pending, and nothing is kept of it: no later step acts
\* on it, its record changing only when a new submission takes its place.
C15_NoRetry ==
  /\ [](\A s \in Slots :
          /\ subs[s].sendForm <= 1
          /\ subs[s].outcome = "rejected"
               => /\ subs[s].phase = "done"
                  /\ subs[s].sendForm = 1 /\ subs[s].send = 0
                  /\ subs[s].ack = "none")
  /\ [][\A s \in Slots :
          (subs[s].outcome = "rejected" /\ subs'[s] # subs[s])
            => (lastOp' = "submit" /\ subs'[s].outcome = "none")]_vars

\* C15 witness: sendForm has just rejected
C15_Witness ==
  /\ lastOp = "settle"
  /\ subs[1].outcome = "rejected"
  /\ subs[1].sendForm = 1
  /\ subs[1].alerts = <<"failure">>

\* C16 as stated: a submission that has ended has called emailjs.send exactly
\* when its sendForm resolved, a reply template id is configured and the email
\* field was non-empty at submit time; the call follows the primary success
\* and is made at most once.
C16_Acknowledgement ==
  \A s \in Slots :
    /\ subs[s].send <= 1
    /\ subs[s].send = 1 => (subs[s].outcome = "resolved" /\ subs[s].alerts[1] = "success")
    /\ subs[s].phase = "done"
         => (subs[s].send = 1
               <=> (subs[s].outcome = "resolved" /\ env.replyTemplateId
                      /\ subs[s].email # ""))

\* a step of the model that is neither a navigation click, nor the About Us
\* click, nor a render: timer ticks, hero dots, counters entering the viewport
\* and their frames, media-query changes, event selection and clearing, the
\* router publishing a location, field edits and every step of a submission
otherStep ==
  \/ Tick
  \/ \E index \in 0..(Len(heroImages) - 1) : HeroDot(index)
  \/ \E S \in EnterSets : ViewportEnter(S)
  \/ \E dt \in 1..MaxFrameGap : Frame(dt)
  \/ \E s \in Screens : MediaChange(s)
  \/ \E i \in 1..Len(highlightsEvents) : SelectEvent(i)
  \/ ClearEvent
  \/ \E p \in Paths : UrlChange(p)
  \/ \E v \in Emails : EditEmail(v)
  \/ \E v \in Names : EditName(v)
  \/ \E v \in Phones : EditPhone(v)
  \/ \E s \in Slots : Submit(s)
  \/ \E s \in Slots : SimTimeout(s)
  \/ \E s \in Slots, ok \in BOOLEAN : SendFormSettles(s, ok)
  \/ \E s \in Slots, ok \in BOOLEAN : SendSettles(s, ok)

\* C17: activeSection changes only in a navigation click, in the About Us
\* click, or in the render that delivers the section the URL effect has set
\* for a new location; a timer tick, a hero dot click, a counter frame, an
\* event selection or clearing, a field edit and a form submission in each of
\* its outcomes leave it unchanged, in every state in which they can happen.
C17_SectionFrame ==
  /\ [][activeSection' # activeSection
         => \/ lastOp' \in {"navClick", "aboutUs"}
            \/ lastOp' = "render" /\ pendSection # NoUpdate
                 /\ activeSection' = pendSection]_vars
  /\ [][lastOp' \in {"select", "enter", "edit", "submit", "timeout", "settle", "ack"}
         => activeSection' = activeSection]_vars
  /\ [](~ENABLED (otherStep /\ activeSection' # activeSection))

\* C17 witness: with About displayed, a submission made on Contact has
\* succeeded and its acknowledgement has settled
C17_Witness ==
  /\ lastOp = "ack"
  /\ activeSection = "About"
  /\ subs[1].outcome = "resolved" /\ subs[1].ack = "rejected"

\* C18 as stated: in every state with nothing pending the pathname is
\* toPath(activeSection), after navigation clicks and location changes to any
\* pathname, "/home" and unknown paths included.
C18_Original ==
  Quiescent => (pathname = toPath(activeSection) /\ browserPath = toPath(activeSection))

\* C18 amended: in every state with nothing pending activeSection is
\* toSection(pathname); the pathname is toPath(activeSection) whenever it is
\* one of the four routed paths; a pathname that is none of them ("/home" or
\* an unknown path) stays in the address bar only while Home is displayed,
\* and it is the path the document was first loaded at.
C18_AgreeAtRest ==
  Quiescent
    => /\ activeSection = toSection(pathname)
       /\ browserPath = pathname
       /\ pathname \in {"/", "/highlights", "/about", "/contact"}
            => pathname = toPath(activeSection)
       /\ pathname \notin {"/", "/highlights", "/about", "/contact"}
            => (activeSection = "Home" /\ pathname = entry
                  /\ lastInput.kind \in {"url", "click"} /\ lastInput.sec = "Home")

\* C18 witness: the visitor went back to "/home" while Home was displayed and
\* nothing is pending with "/home" in the address bar
C18_Witness ==
  /\ Quiescent
  /\ lastInput = [kind |-> "url", arg |-> "/home", path |-> "/", sec |-> "Home"]
  /\ activeSection = "Home" /\ pathname = "/home"

\* pathnames that are none of /highlights, /about, /contact
homePaths == {"/", "/home", "/x"}

\* C19: toSection maps every pathname other than /highlights, /about and
\* /contact to Home; once the location is such a pathname, at mount or by a
\* location change, the app reaches a state with nothing pending in which
\* activeSection is Home, and every state with nothing pending before the next
\* navigation input has activeSection Home.
C19_OtherPathsHome ==
  /\ [](\A p \in homePaths \cup {"", "/About", "/contact/", "/index.html"} :
          toSection(p) = "Home")
  /\ [](\A p \in homePaths :
          (Quiescent /\ lastInput.kind \in {"url", "mount"} /\ lastInput.arg = p)
            => activeSection = "Home")
  /\ \A p \in homePaths :
        (lastInput.kind \in {"url", "mount"} /\ lastInput.arg = p)
          ~> (Quiescent /\ lastInput.kind \in {"url", "mount"} /\ lastInput.arg = p
                /\ activeSection = "Home")

\* C19 witness: from About the location changed to an unknown path and the app
\* has settled on Home, the section effect having moved the URL to "/"
C19_Witness ==
  /\ Quiescent
  /\ lastInput = [kind |-> "url", arg |-> "/x", path |-> "/about", sec |-> "About"]
  /\ activeSection = "Home" /\ pathname = "/"
  /\ effSets = 1 /\ navCalls = 1

\* C20: a click on the navigation button of section S sets, in that one step,
\* activeSection to S and selectedEventId to null, so that the view is section
\* S; the view stays section S until an event is selected or the next
\* navigation input, and only an event selection opens a detail view.
C20_NavClickShowsSection ==
  /\ [][lastOp' = "navClick"
         => /\ lastInput'.kind = "click"
            /\ activeSection' = lastInput'.arg
            /\ selectedEventId' = null
            /\ renderSection' = <<"section", lastInput'.arg>>]_vars
  /\ []((lastInput.kind = "click" /\ selectedEventId = null)
          => renderSection = <<"section", lastInput.arg>>)
  /\ [][(selectedEventId = null /\ selectedEventId' # null) => lastOp' = "select"]_vars

\* C20 witness: a click on Highlights made while another section's URL was
\* shown with Highlights active has produced the Highlights list
C20_Witness ==
  /\ lastOp = "navClick"
  /\ lastInput.arg = "Highlights" /\ lastInput.sec = "Highlights"
  /\ selectedEventId = null
  /\ renderSection = <<"section", "Highlights">>

\* C21 as stated: in every reachable state a selected event implies that
\* activeSection is Highlights, and that the pathname is /highlights when
\* nothing is pending, back/forward navigation and deep-link loads included.
C21_DetailOnlyInHighlights ==
  selectedEventId # null
    => /\ activeSection = "Highlights"
       /\ Quiescent => pathname = "/highlights"

\* C22 as stated: when the promise of emailjs.sendForm resolves after the
\* visitor has left the Contact section, the submission has shown the success
\* alert and no other, and has called emailjs.send if a reply template id is
\* configured and the email captured at submit time was non-empty.
C22_LeavingInFlight ==
  [][\A s \in Slots :
       (lastOp' = "settle" /\ subs[s].phase = "sending"
          /\ subs'[s].outcome = "resolved"
          /\ renderSection # <<"section", "Contact">>)
         => /\ subs'[s].alerts = <<"success">>
            /\ (env.replyTemplateId /\ subs[s].email # "")
                 => (subs'[s].send = 1 /\ subs'[s].ack = "pending")]_vars

\* C23: the settling of the acknowledgement call, resolved or rejected, shows
\* no alert and leaves the outcome of the submission alone: a submission whose
\* acknowledgement was sent has the success alert as its only alert while the
\* call is pending and after it has resolved or rejected.
C23_AckFailureSilent ==
  /\ [](\A s \in Slots :
          subs[s].ack # "none"
            => /\ subs[s].alerts = <<"success">>
               /\ subs[s].outcome = "resolved"
               /\ subs[s].phase = "done"
               /\ subs[s].send = 1)
  /\ [][\A s \in Slots :
          (lastOp' = "ack" /\ subs'[s] # subs[s])
            => /\ subs[s].ack = "pending"
               /\ subs'[s].ack \in {"resolved", "rejected"}
               /\ subs'[s] = [subs[s] EXCEPT !.ack = subs'[s].ack]]_vars

\* C23 witness: the acknowledgement has just been rejected with the Contact
\* section still displayed
C23_Witness ==
  /\ lastOp = "ack"
  /\ activeSection = "Contact"
  /\ subs[1].ack = "rejected"
  /\ subs[1].alerts = <<"success">>

\* C24 as stated: a click on hero dot k sets currentHeroIndex to k; the
\* interval goes on, so that a tick can fall in every state after the mount,
\* whichever section or event detail is displayed, and moves the index from i
\* to (i + 1) mod heroImages.length, also right after a dot click; a tick
\* changes no state other than currentHeroIndex.
C24_DotAndTick ==
  /\ [](\A k \in 0..(Len(heroImages) - 1) :
          ~ENABLED (HeroDot(k) /\ currentHeroIndex' # k))
  /\ [](mounted => ENABLED Tick)
  /\ [][lastOp' = "tick"
         => currentHeroIndex' = (currentHeroIndex + 1) % Len(heroImages)]_vars
  /\ [][lastOp' = "tick"
         => UNCHANGED <<activeSection, selectedEventId, userEmail, userName, userPhone,
                        pathname, pendSection, pendPath, mounted, screen, env, subs,
                        counters>>]_vars

\* C25: every step of a submission (the submit event in each branch of the
\* config guard, the simulation timeout, the settling of sendForm with its
\* reset of the form, the settling of the acknowledgement) leaves userName,
\* userEmail and userPhone unchanged; only a field edit changes one of them,
\* and a submission captures the userEmail the state holds at that moment.
C25_FieldsKept ==
  /\ [][lastOp' \in {"submit", "timeout", "settle", "ack"}
         => UNCHANGED <<userName, userEmail, userPhone>>]_vars
  /\ [][<<userName, userEmail, userPhone>>' # <<userName, userEmail, userPhone>>
         => lastOp' = "edit"]_vars
  /\ [][\A s \in Slots :
          (lastOp' = "submit" /\ subs'[s] # subs[s]) => subs'[s].email = userEmail]_vars

\* C25 witness: sendForm has resolved and the form has been reset while all
\* three fields still hold what was typed
C25_Witness ==
  /\ lastOp = "settle"
  /\ subs[1].outcome = "resolved" /\ subs[1].resets = 1
  /\ userName = "Ann" /\ userEmail = "ann@example.org" /\ userPhone = "555"

====
